---- MODULE Spec2Model ----
(***************************************************************************)
(* Model of the recoloring engine of hyfetch                               *)
(* (crates/hyfetch/src/neofetch_util.rs): the placeholder scanner,         *)
(* ascii_size, normalize_ascii, fill_starting and                          *)
(* ColorAlignment::recolor_ascii.                                          *)
(*                                                                         *)
(* A Rust `str` is modelled as the sequence of its bytes.  Byte offsets    *)
(* are 0-based and ranges are half open, as in the source.  The bytes are  *)
(* "$" "{" "c" "1".."6" "}" " " "x" "\n" and the two bytes "E1" "E2" of    *)
(* one two-byte character (one grapheme).  An escape sequence produced by  *)
(* the colour collaborator is one element whose text starts with "ESC".    *)
(***************************************************************************)
EXTENDS Naturals, Integers, Sequences, FiniteSets, TLC

VARIABLES asc, n_pieces, pc, call, result, scanner, threads

vars == <<asc, n_pieces, pc, call, result, scanner, threads>>

(* ------------------------------------------------------------------ *)
(* Bounds of the model                                                *)
(* ------------------------------------------------------------------ *)

\* Number of pieces an input art is assembled from.
MaxPieces == 4

\* Number of pieces an input art of the size specification is assembled from.
MaxRuns == 3

\* Number of pieces an input art of the carry specification is assembled from.
MaxCarryPieces == 6

\* Number of threads that call the engine concurrently.
NumThreads == 2

\* Length of the shorter long run of the size specification; the longer one
\* has one byte more, so that two runs reach U8Max and U8Max + 1.
LongRun == 127

(* ------------------------------------------------------------------ *)
(* Strings                                                            *)
(* ------------------------------------------------------------------ *)

\* &s[a..b]
Slice(s, a, b) == SubSeq(s, a + 1, b)

\* s[a..b] with Rust's range check: a <= b <= len
SliceOk(s, a, b) == a >= 0 /\ a <= b /\ b <= Len(s)

Range(s) == {s[i] : i \in 1..Len(s)}

Min(S) == CHOOSE x \in S : \A y \in S : x <= y

Max(S) == CHOOSE x \in S : \A y \in S : y <= x

\* concatenation of a sequence of strings, by halves
RECURSIVE Flatten(_)
Flatten(ss) ==
    IF ss = <<>> THEN <<>>
    ELSE IF Len(ss) = 1 THEN ss[1]
    ELSE LET h == Len(ss) \div 2
         IN Flatten(SubSeq(ss, 1, h)) \o Flatten(SubSeq(ss, h + 1, Len(ss)))

\* str::repeat(n)
Repeat(s, n) == [i \in 1..(n * Len(s)) |-> s[((i - 1) % Len(s)) + 1]]

\* str::split('\n'): the pieces between the line breaks, always at least
\* one; computed by halves, the piece cut by the middle being rejoined
RECURSIVE Split(_)
Split(s) ==
    IF s = <<>> THEN << <<>> >>
    ELSE IF Len(s) = 1 THEN (IF s[1] = "\n" THEN << <<>>, <<>> >> ELSE <<s>>)
    ELSE LET h == Len(s) \div 2
             l == Split(SubSeq(s, 1, h))
             r == Split(SubSeq(s, h + 1, Len(s)))
         IN SubSeq(l, 1, Len(l) - 1) \o <<l[Len(l)] \o r[1]>> \o Tail(r)

\* Itertools::join("\n")
Join(lines) ==
    Flatten([i \in 1..Len(lines) |->
                IF i = 1 THEN lines[1] ELSE <<"\n">> \o lines[i]])

\* graphemes(true).count(): a continuation byte starts no grapheme
IsContinuation(b) == b = "E2"

\* the escape sequences the colour collaborator (crate::color_util) writes,
\* each one element of the text: the reset, the theme-neutral foreground in
\* 8-bit and in RGB mode, the foreground of the profile colours
EscapeSet ==
    {"ESC[39mESC[49m", "ESC[38;5;0m", "ESC[38;5;15m", "ESC[38;2;0;0;0m",
     "ESC[38;2;255;255;255m", "ESC[fg:R", "ESC[fg:G", "ESC[fg:B"}

\* the number of characters of each escape sequence
EscapeGraphemeCount ==
    [e \in EscapeSet |->
        CASE e = "ESC[39mESC[49m" -> 10
          [] e = "ESC[38;5;0m" -> 9
          [] e = "ESC[38;5;15m" -> 10
          [] e = "ESC[38;2;0;0;0m" -> 13
          [] e = "ESC[38;2;255;255;255m" -> 19
          [] OTHER -> 15]

IsEscape(b) == b \in EscapeSet

\* the graphemes of the escapes of s: every character of an escape sequence
\* is a grapheme of its own
RECURSIVE EscapeGraphemes(_, _)
EscapeGraphemes(s, E) ==
    IF E = {} THEN 0
    ELSE LET e == CHOOSE x \in E : TRUE
         IN EscapeGraphemeCount[e] * Cardinality({i \in 1..Len(s) : s[i] = e})
                + EscapeGraphemes(s, E \ {e})

Graphemes(s) ==
    LET escapes == {i \in 1..Len(s) : IsEscape(s[i])}
    IN IF escapes = {}
       THEN Cardinality({i \in 1..Len(s) : ~IsContinuation(s[i])})
       ELSE Cardinality({i \in 1..Len(s) : ~IsContinuation(s[i])})
                - Cardinality(escapes) + EscapeGraphemes(s, EscapeSet)

\* line[0..k].trim_end_matches(' ').is_empty()
OnlySpaces(s) == \A i \in 1..Len(s) : s[i] = " "

(* ------------------------------------------------------------------ *)
(* Results: Ok(value), Err(anyhow error), or a panic (the thread       *)
(* aborts: expect, unreachable!, index or slice out of range)          *)
(* ------------------------------------------------------------------ *)

Ok(t) == [kind |-> "ok", text |-> t, err |-> "", size |-> <<0, 0>>]
OkSize(w, h) == [kind |-> "ok", text |-> <<>>, err |-> "", size |-> <<w, h>>]
Err(e) == [kind |-> "err", text |-> <<>>, err |-> e, size |-> <<0, 0>>]
Panic(e) == [kind |-> "panic", text |-> <<>>, err |-> e, size |-> <<0, 0>>]
NoResult == [kind |-> "none", text |-> <<>>, err |-> "", size |-> <<0, 0>>]

(* ------------------------------------------------------------------ *)
(* Placeholder scanner                                                 *)
(* ------------------------------------------------------------------ *)

SlotCount == 6

\* u8 -> decimal text, as format!("${{c{n}}}") writes it
Digit(n) == CASE n = 1 -> "1" [] n = 2 -> "2" [] n = 3 -> "3"
              [] n = 4 -> "4" [] n = 5 -> "5" [] n = 6 -> "6"

\* format!("${{c{n}}}", n = u8::from(slot))
Token(n) == <<"$", "{", "c", Digit(n), "}">>

NEOFETCH_COLOR_PATTERNS == [k \in 1..SlotCount |-> Token(k)]

TokenLen == 5

\* index (1-based) of the pattern that matches at byte offset i, 0 if none
PatternAt(s, i) ==
    IF i + TokenLen > Len(s) THEN 0
    ELSE IF s[i + 1] # "$" THEN 0
    ELSE LET w == Slice(s, i, i + TokenLen)
             hit == {k \in 1..SlotCount : NEOFETCH_COLOR_PATTERNS[k] = w}
         IN IF hit = {} THEN 0 ELSE CHOOSE k \in hit : TRUE

\* static NEOFETCH_COLORS_AC: OnceLock<AhoCorasick> = OnceLock::new(): the
\* cell is empty, or being filled by the one thread that runs the closure,
\* or holds the automaton; inits counts the times the cell was written
Uninitialised == [state |-> "uninit", patterns |-> <<>>, inits |-> 0]

Initialised(s) ==
    [state |-> "init", patterns |-> NEOFETCH_COLOR_PATTERNS, inits |-> s.inits + 1]

\* NEOFETCH_COLORS_AC.get_or_init(|| AhoCorasick::new(..).unwrap()), run
\* without contention
get_or_init(s) == IF s.state = "init" THEN s ELSE Initialised(s)

\* ac.find_iter(s): the non-overlapping matches, leftmost first; each turn
\* finds the leftmost match that starts at or after the end of the last one
RECURSIVE FindFrom(_, _)
FindFrom(s, i) ==
    LET at == {p \in i..(Len(s) - TokenLen) : PatternAt(s, p) # 0}
    IN IF at = {} THEN <<>>
       ELSE LET p == Min(at)
            IN <<[start |-> p, end |-> p + TokenLen, pattern |-> PatternAt(s, p)]>>
                   \o FindFrom(s, p + TokenLen)

find_iter(s) == FindFrom(s, 0)

\* ac.replace_all(s, replacements): one pass over find_iter's matches
RECURSIVE ReplaceFrom(_, _, _, _)
ReplaceFrom(s, ms, i, replacements) ==
    IF ms = <<>> THEN Slice(s, i, Len(s))
    ELSE Slice(s, i, Head(ms).start) \o replacements[Head(ms).pattern]
             \o ReplaceFrom(s, Tail(ms), Head(ms).end, replacements)

replace_all(s, replacements) == ReplaceFrom(s, find_iter(s), 0, replacements)

\* const REPLACEMENTS: [&str; N] = [""; N]
REPLACEMENTS == [k \in 1..SlotCount |-> <<>>]

\* the strip pass: ac.replace_all(asc, &REPLACEMENTS)
strip(a) == replace_all(a, REPLACEMENTS)

(* ------------------------------------------------------------------ *)
(* fill_starting                                                       *)
(* ------------------------------------------------------------------ *)

\* the guard of the first match arm: the line starts with a colour code
StartsWithCodeAny(line, ms) == ms # <<>>

StartsWithCode(line, ms) ==
    /\ ms # <<>>
    /\ \/ ms[1].start = 0
       \/ OnlySpaces(Slice(line, 0, ms[1].start))

\* a variant of the fold in which a line that received the carried code
\* leaves the carry as it was
RECURSIVE FillLinesCarryKept(_, _, _)
FillLinesCarryKept(lines, last, done) ==
    IF lines = <<>> THEN Ok(Join(done))
    ELSE LET line == Head(lines)
             ms == find_iter(line)
             starts == StartsWithCode(line, ms)
             next == IF ms = <<>> \/ ~starts THEN last
                     ELSE <<Slice(line, ms[Len(ms)].start, ms[Len(ms)].end)>>
         IN IF ~starts /\ last = <<>>
            THEN Err("MissingColorState")
            ELSE FillLinesCarryKept(Tail(lines), next,
                           Append(done, (IF starts THEN <<>> ELSE last[1]) \o line))

\* the fold over the lines; last = <<>> is None, <<token>> is Some(token)
RECURSIVE FillLines(_, _, _)
FillLines(lines, last, done) ==
    IF lines = <<>> THEN Ok(Join(done))
    ELSE LET line == Head(lines)
             ms == find_iter(line)
             starts == StartsWithCode(line, ms)
             next == IF ms = <<>> THEN last
                     ELSE <<Slice(line, ms[Len(ms)].start, ms[Len(ms)].end)>>
         IN IF ~starts /\ last = <<>>
            THEN Err("MissingColorState")
            ELSE FillLines(Tail(lines), next,
                           Append(done, (IF starts THEN <<>> ELSE last[1]) \o line))

\* a variant that starts from a default code instead of None
fill_starting_default(a) == FillLines(Split(a), <<Token(1)>>, <<>>)

fill_starting(a) == FillLines(Split(a), <<>>, <<>>)

(* ------------------------------------------------------------------ *)
(* The colour collaborator (crate::color_util, crate::presets)         *)
(* ------------------------------------------------------------------ *)

\* color("&~&*", color_mode): the reset escape
reset == "ESC[39mESC[49m"

\* the AnsiMode values
ColorModes == {"Ansi256", "Rgb"}

\* color("&0" | "&f", color_mode): the theme-neutral colour escape
NeutralColor(theme, color_mode) ==
    IF color_mode = "Rgb"
    THEN (IF theme = "Light" THEN "ESC[38;2;0;0;0m" ELSE "ESC[38;2;255;255;255m")
    ELSE (IF theme = "Light" THEN "ESC[38;5;0m" ELSE "ESC[38;5;15m")

\* Srgb::to_ansi_string(color_mode, ForegroundBackground::Foreground)
to_ansi_string(c) == "ESC[fg:" \o c

\* ColorProfile::with_weights: colors[i] repeated weights[i] times
RECURSIVE WithWeights(_, _, _)
WithWeights(colors, weights, i) ==
    IF i > Len(colors) THEN <<>>
    ELSE Repeat(<<colors[i]>>, weights[i]) \o WithWeights(colors, weights, i + 1)

\* ColorProfile::with_length(length): fails on an empty profile and on
\* length 0; the colours are repeated evenly, the centre one takes the rest
with_length(colors, length) ==
    IF colors = <<>> \/ length = 0 THEN Err("ProfileSpreadFailure")
    ELSE LET n == Len(colors)
             center == n \div 2
             weights == [i \in 1..n |->
                            (length \div n) + (IF i = center + 1 THEN length % n ELSE 0)]
         IN Ok(WithWeights(colors, weights, 1))

\* ColorProfile::unique_colors(): first occurrences, in order
RECURSIVE unique_colors(_)
unique_colors(colors) ==
    IF colors = <<>> THEN <<>>
    ELSE LET init == unique_colors(SubSeq(colors, 1, Len(colors) - 1))
             c == colors[Len(colors)]
         IN IF c \in Range(init) THEN init ELSE Append(init, c)

\* the body of color_text: one colour escape before every grapheme
ColorGraphemes(txt, colors) ==
    Flatten([j \in 1..Len(txt) |->
                IF IsContinuation(txt[j]) THEN <<txt[j]>>
                ELSE <<to_ansi_string(colors[Graphemes(SubSeq(txt, 1, j))]), txt[j]>>])

\* ColorProfile::color_text(txt, color_mode, Foreground, false): the
\* profile spread to the text's graphemes, one colour each, then a reset
color_text(colors, txt) ==
    LET spread == with_length(colors, Graphemes(txt))
    IN IF spread.kind # "ok" THEN spread
       ELSE Ok(ColorGraphemes(txt, spread.text) \o <<reset>>)

(* ------------------------------------------------------------------ *)
(* ascii_size, normalize_ascii                                         *)
(* ------------------------------------------------------------------ *)

\* u8::MAX, the bound of u8::try_from
U8Max == 255

\* .map(|line| line.graphemes(true).count()).max()
MaxWidth(lines) == Max({Graphemes(lines[i]) : i \in 1..Len(lines)})

ascii_size(a) ==
    LET lines == Split(replace_all(a, REPLACEMENTS))
        width == MaxWidth(lines)
        height == Len(lines)
    IN IF width > U8Max THEN Panic("width should fit in u8")
       ELSE IF height > U8Max THEN Panic("height should fit in u8")
       ELSE OkSize(width, height)

\* the results of a map over the lines, joined: the first line (in order)
\* that fails or panics ends the whole, else the texts are joined by "\n"
Collect(rs) ==
    LET bad == {i \in 1..Len(rs) : rs[i].kind # "ok"}
    IN IF bad # {} THEN rs[Min(bad)]
       ELSE Ok(Join([i \in 1..Len(rs) |-> rs[i].text]))

\* a variant that measures the line in bytes instead of graphemes
NormalizeLineBytes(line, w) ==
    LET sz == ascii_size(line)
        bytes == Len(replace_all(line, REPLACEMENTS))
    IN IF sz.kind # "ok" THEN sz
       ELSE IF w < bytes THEN Panic("attempt to subtract with overflow")
       ELSE Ok(line \o Repeat(<<" ">>, w - bytes))

\* the closure of normalize_ascii's map: the line padded to width w
NormalizeLine(line, w) ==
    LET sz == ascii_size(line)
    IN IF sz.kind # "ok" THEN sz
       ELSE IF w < sz.size[1] THEN Panic("attempt to subtract with overflow")
       ELSE Ok(line \o Repeat(<<" ">>, w - sz.size[1]))

normalize_ascii(a) ==
    LET sz == ascii_size(a)
        lines == Split(a)
    IN IF sz.kind # "ok" THEN sz
       ELSE Collect([i \in 1..Len(lines) |-> NormalizeLine(lines[i], sz.size[1])])

(* ------------------------------------------------------------------ *)
(* ColorAlignment::recolor_ascii                                       *)
(* ------------------------------------------------------------------ *)

\* str::replace(from, to): the non-overlapping occurrences, leftmost first
RECURSIVE StrReplaceFrom(_, _, _, _)
StrReplaceFrom(s, i, from, to) ==
    LET at == {p \in i..(Len(s) - Len(from)) : Slice(s, p, p + Len(from)) = from}
    IN IF at = {} THEN Slice(s, i, Len(s))
       ELSE Slice(s, i, Min(at)) \o to
                \o StrReplaceFrom(s, Min(at) + Len(from), from, to)

str_replace(s, from, to) == StrReplaceFrom(s, 0, from, to)

\* line[m.start() + 3..m.end() - 1].parse::<NeofetchAsciiIndexedColor>()
ParseSlot(d) == CASE d = <<"1">> -> 1 [] d = <<"2">> -> 2 [] d = <<"3">> -> 3
                  [] d = <<"4">> -> 4 [] d = <<"5">> -> 5 [] d = <<"6">> -> 6

\* ---- Horizontal, fore_back: Some((fore, back)) ----

\* the closure over (i, line): the back code becomes colors[i], then reset
HorizontalLine(line, i, colors, back) ==
    IF i >= Len(colors) THEN Panic("index out of bounds")
    ELSE Ok(str_replace(line, Token(back), <<to_ansi_string(colors[i + 1])>>)
                \o <<reset>>)

\* ascii_size is given the art with the fore escapes already inserted; only
\* the height it returns is used
HorizontalForeBack(a, fore, back, color_profile, theme, color_mode) ==
    LET filled == fill_starting(a)
    IN IF filled.kind # "ok" THEN filled
       ELSE LET asc1 == str_replace(filled.text, Token(fore), <<NeutralColor(theme, color_mode)>>)
                sz == ascii_size(asc1)
            IN IF sz.kind # "ok" THEN sz
               ELSE LET spread == with_length(color_profile, sz.size[2])
                    IN IF spread.kind # "ok" THEN spread
                       ELSE LET lines == Split(asc1)
                                rs == [i \in 1..Len(lines) |->
                                          HorizontalLine(lines[i], i - 1, spread.text, back)]
                                asc2 == Collect(rs)
                            IN IF asc2.kind # "ok" THEN asc2
                               ELSE Ok(replace_all(asc2.text, REPLACEMENTS))

\* ---- Vertical, fore_back: Some((fore, back)) ----

\* offset after the match m is consumed: offset += m.len()

NextOffset(offset, m) == offset + (m.end - m.start)

\* one turn of the loop for match k of ms: the rendering of its span
VerticalSpan(line, ms, k, offset, colors, fore, back, theme, color_mode) ==
    LET m == ms[k]
        idx == ParseSlot(Slice(line, m.start + 3, m.end - 1))
        start == m.end
        end == IF k < Len(ms) THEN ms[k + 1].start ELSE Len(line)
        txt == Slice(line, start, end)
    IN IF idx = fore THEN Ok(<<NeutralColor(theme, color_mode)>> \o txt \o <<reset>>)
       ELSE IF idx = back
            THEN IF ~SliceOk(colors, start - offset, end - offset)
                 THEN Panic("slice index out of range")
                 ELSE color_text(Slice(colors, start - offset, end - offset), txt)
       ELSE Ok(txt)

RECURSIVE VerticalLoop(_, _, _, _, _, _, _, _, _, _)
VerticalLoop(line, ms, k, offset, dst, colors, fore, back, theme, color_mode) ==
    LET off == NextOffset(offset, ms[k])
        r == VerticalSpan(line, ms, k, off, colors, fore, back, theme, color_mode)
    IN IF r.kind # "ok" THEN r
       ELSE IF k = Len(ms) THEN Ok(dst \o r.text)
       ELSE VerticalLoop(line, ms, k + 1, off, dst \o r.text, colors, fore, back, theme, color_mode)

VerticalLine(line, colors, fore, back, theme, color_mode) ==
    LET ms == find_iter(line)
    IN IF ms = <<>> THEN Panic("unreachable: no color code in the entire line")
       ELSE VerticalLoop(line, ms, 1, 0, <<>>, colors, fore, back, theme, color_mode)

\* a variant that scans the lines of the art as it was passed, not as
\* fill_starting returned it
VerticalForeBackUnfilled(a, fore, back, color_profile, theme, color_mode) ==
    LET filled == fill_starting(a)
    IN IF filled.kind # "ok" THEN filled
       ELSE LET sz == ascii_size(filled.text)
            IN IF sz.kind # "ok" THEN sz
               ELSE LET spread == with_length(color_profile, sz.size[1])
                    IN IF spread.kind # "ok" THEN spread
                       ELSE LET lines == Split(a)
                            IN Collect([i \in 1..Len(lines) |->
                                   VerticalLine(lines[i], spread.text, fore, back, theme, color_mode)])

VerticalForeBack(a, fore, back, color_profile, theme, color_mode) ==
    LET filled == fill_starting(a)
    IN IF filled.kind # "ok" THEN filled
       ELSE LET sz == ascii_size(filled.text)
            IN IF sz.kind # "ok" THEN sz
               ELSE LET spread == with_length(color_profile, sz.size[1])
                    IN IF spread.kind # "ok" THEN spread
                       ELSE LET lines == Split(filled.text)
                            IN Collect([i \in 1..Len(lines) |->
                                   VerticalLine(lines[i], spread.text, fore, back, theme, color_mode)])

\* ---- Horizontal / Vertical, fore_back: None ----

\* a variant that returns the stripped art when the profile cannot be spread
HorizontalPlainUnspread(a, color_profile) ==
    LET stripped == replace_all(a, REPLACEMENTS)
        lines == Split(stripped)
        sz == ascii_size(stripped)
    IN IF sz.kind # "ok" THEN sz
       ELSE LET spread == with_length(color_profile, sz.size[2])
            IN IF spread.kind # "ok" THEN Ok(stripped)
               ELSE Collect([i \in 1..Len(lines) |->
                                Ok(<<to_ansi_string(spread.text[i])>>
                                       \o lines[i] \o <<reset>>)])

\* a variant without the reset at the line end
HorizontalPlainLineNoReset(line, i, colors) ==
    IF i >= Len(colors) THEN Panic("index out of bounds")
    ELSE Ok(<<to_ansi_string(colors[i + 1])>> \o line)

HorizontalPlainLine(line, i, colors) ==
    IF i >= Len(colors) THEN Panic("index out of bounds")
    ELSE Ok(<<to_ansi_string(colors[i + 1])>> \o line \o <<reset>>)

HorizontalPlain(a, color_profile) ==
    LET stripped == replace_all(a, REPLACEMENTS)
        lines == Split(stripped)
        sz == ascii_size(stripped)
    IN IF sz.kind # "ok" THEN sz
       ELSE LET spread == with_length(color_profile, sz.size[2])
            IN IF spread.kind # "ok" THEN spread
               ELSE Collect([i \in 1..Len(lines) |->
                                HorizontalPlainLine(lines[i], i - 1, spread.text)])

\* a variant that runs fill_starting first, as the branches with a pair do
VerticalPlainFilled(a, color_profile) ==
    LET filled == fill_starting(a)
    IN IF filled.kind # "ok" THEN filled
       ELSE LET lines == Split(replace_all(filled.text, REPLACEMENTS))
            IN Collect([i \in 1..Len(lines) |-> color_text(color_profile, lines[i])])

VerticalPlain(a, color_profile) ==
    LET lines == Split(replace_all(a, REPLACEMENTS))
    IN Collect([i \in 1..Len(lines) |-> color_text(color_profile, lines[i])])

\* ---- Custom { colors: custom_colors } ----

\* replacements[ai - 1] = colors[pi], for the entries <<ai, pi>> in order
\* a variant that forgets the slots are 1-indexed
ReplacementIndexNoMinus(ai) == ai + 1

\* usize::from(ai - 1), as an index into the 1-based sequence of the model
ReplacementIndex(ai) == ai

PaletteEntry(colors, pi) ==
    IF pi >= Len(colors) THEN <<Panic("index out of bounds")>>
    ELSE <<Ok(<<to_ansi_string(colors[pi + 1])>>)>>

RECURSIVE CustomReplacements(_, _, _)
CustomReplacements(custom_colors, colors, replacements) ==
    IF custom_colors = <<>> THEN <<Ok(<<>>), replacements>>
    ELSE LET ai == Head(custom_colors)[1]
             e == PaletteEntry(colors, Head(custom_colors)[2])[1]
         IN IF e.kind # "ok" THEN <<e, replacements>>
            ELSE CustomReplacements(Tail(custom_colors), colors,
                                    [replacements EXCEPT ![ReplacementIndex(ai)] = e.text])

Custom(a, custom_colors, color_profile) ==
    LET filled == fill_starting(a)
    IN IF filled.kind # "ok" THEN filled
       ELSE LET colors == unique_colors(color_profile)
                reps == CustomReplacements(custom_colors, colors, REPLACEMENTS)
            IN IF reps[1].kind # "ok" THEN reps[1]
               ELSE LET lines == Split(replace_all(filled.text, reps[2]))
                    IN Ok(Join([i \in 1..Len(lines) |-> lines[i] \o <<reset>>]))

\* the match over self
recolor_ascii(alignment, a, color_profile, theme, color_mode) ==
    CASE alignment.mode = "horizontal" /\ alignment.fore_back # <<>> ->
            HorizontalForeBack(a, alignment.fore_back[1], alignment.fore_back[2],
                               color_profile, theme, color_mode)
      [] alignment.mode = "vertical" /\ alignment.fore_back # <<>> ->
            VerticalForeBack(a, alignment.fore_back[1], alignment.fore_back[2],
                             color_profile, theme, color_mode)
      [] alignment.mode = "horizontal" /\ alignment.fore_back = <<>> ->
            HorizontalPlain(a, color_profile)
      [] alignment.mode = "vertical" /\ alignment.fore_back = <<>> ->
            VerticalPlain(a, color_profile)
      [] alignment.mode = "custom" ->
            Custom(a, alignment.colors, color_profile)

(* ------------------------------------------------------------------ *)
(* Input arts                                                          *)
(* ------------------------------------------------------------------ *)

Pieces == { Token(1), Token(2), Token(3), <<"$", "{", "c">>, <<"1", "}">>,
            <<" ">>, <<"x">>, <<"\n">>, <<"E1", "E2">> }

\* the pieces of the carry specification: two tokens, text, space, line break
CarryPieces == { Token(1), Token(2), <<"x">>, <<" ">>, <<"\n">> }

\* the pieces of the wide specification: tokens, long runs of columns and a
\* line break
WidePieces == { Token(1), Token(2), Repeat(<<"x">>, LongRun),
                Repeat(<<"x">>, LongRun + 1), <<"\n">> }

\* the pieces of the size specification: long runs of one column or one
\* line break each
SizePieces == { Repeat(<<"x">>, LongRun), Repeat(<<"x">>, LongRun + 1),
                Repeat(<<"\n">>, LongRun), Repeat(<<"\n">>, LongRun + 1) }

(* ------------------------------------------------------------------ *)
(* The state machine                                                   *)
(* ------------------------------------------------------------------ *)

Horizontal(fb) == [mode |-> "horizontal", fore_back |-> fb, colors |-> <<>>]
Vertical(fb) == [mode |-> "vertical", fore_back |-> fb, colors |-> <<>>]
CustomColors(m) == [mode |-> "custom", fore_back |-> <<>>, colors |-> m]

\* fore_back is <<>> (None) or <<fore, back>>; custom_colors is the list of
\* the map's entries <<ascii index, preset index>>
Alignments ==
    { Horizontal(<<>>), Horizontal(<<1, 2>>), Vertical(<<>>), Vertical(<<1, 2>>),
      CustomColors(<<>>), CustomColors(<<<<1, 0>>, <<3, 2>>>>) }

Profiles == { <<>>, <<"R", "G">>, <<"R", "R", "G", "B">> }

\* the calls of recolor_ascii: every alignment with every profile on a dark
\* terminal in RGB mode, and the alignments that write the theme-neutral
\* colour on a light terminal and in 8-bit mode as well
RecolorCalls ==
    {<<al, cp, "Dark", "Rgb">> : al \in Alignments, cp \in Profiles}
        \cup {<<al, <<"R", "G">>, c[1], c[2]>> :
                  al \in {Horizontal(<<1, 2>>), Vertical(<<1, 2>>)},
                  c \in {<<"Light", "Rgb">>, <<"Dark", "Ansi256">>}}

CallsOf(mode) == {c \in RecolorCalls : c[1].mode = mode}

\* one call of every alignment strategy, with the empty profile and with a
\* profile of two colours
StrategyCalls ==
    {<<al, cp, "Dark", "Rgb">> :
        al \in {Horizontal(<<>>), Horizontal(<<1, 2>>), Vertical(<<>>),
                Vertical(<<1, 2>>), CustomColors(<<>>)},
        cp \in {<<>>, <<"R", "G">>}}

NoCall == [op |-> "none", alignment |-> Horizontal(<<>>), color_profile |-> <<>>,
           theme |-> "Dark", color_mode |-> "Rgb"]

CallOf(op) == [NoCall EXCEPT !.op = op]

Threads == 1..NumThreads

\* a thread that is not inside a call of the engine
IdleThread == [pc |-> "idle", call |-> NoCall, art |-> <<>>, left |-> 0,
               observed |-> TRUE, result |-> NoResult]

Init ==
    /\ asc = <<>>
    /\ n_pieces = 0
    /\ pc = "input"
    /\ call = NoCall
    /\ result = NoResult
    /\ scanner = Uninitialised
    /\ threads = [t \in Threads |-> IdleThread]

\* the caller assembles the art text
AppendPiece ==
    /\ pc = "input"
    /\ n_pieces < MaxPieces
    /\ \E p \in Pieces : asc' = asc \o p
    /\ n_pieces' = n_pieces + 1
    /\ UNCHANGED <<pc, call, result, scanner, threads>>

\* the caller assembles an art of several lines with tokens inside the lines
AppendCarryPiece ==
    /\ pc = "input"
    /\ n_pieces < MaxCarryPieces
    /\ \E p \in CarryPieces : asc' = asc \o p
    /\ n_pieces' = n_pieces + 1
    /\ UNCHANGED <<pc, call, result, scanner, threads>>

\* the caller assembles an art of wide lines that hold tokens
AppendWidePiece ==
    /\ pc = "input"
    /\ n_pieces < MaxRuns
    /\ \E p \in WidePieces : asc' = asc \o p
    /\ n_pieces' = n_pieces + 1
    /\ UNCHANGED <<pc, call, result, scanner, threads>>

\* the caller assembles a large art
AppendRun ==
    /\ pc = "input"
    /\ n_pieces < MaxRuns
    /\ \E p \in SizePieces : asc' = asc \o p
    /\ n_pieces' = n_pieces + 1
    /\ UNCHANGED <<pc, call, result, scanner, threads>>

CallFillStarting ==
    /\ pc = "input"
    /\ pc' = "done"
    /\ call' = CallOf("fill_starting")
    /\ result' = fill_starting(asc)
    /\ scanner' = get_or_init(scanner)
    /\ UNCHANGED <<asc, n_pieces, threads>>

CallAsciiSize ==
    /\ pc = "input"
    /\ pc' = "done"
    /\ call' = CallOf("ascii_size")
    /\ result' = ascii_size(asc)
    /\ scanner' = get_or_init(scanner)
    /\ UNCHANGED <<asc, n_pieces, threads>>

CallNormalizeAscii ==
    /\ pc = "input"
    /\ pc' = "done"
    /\ call' = CallOf("normalize_ascii")
    /\ result' = normalize_ascii(asc)
    /\ scanner' = get_or_init(scanner)
    /\ UNCHANGED <<asc, n_pieces, threads>>

CallRecolorAscii(calls) ==
    /\ pc = "input"
    /\ pc' = "done"
    /\ \E c \in calls :
          /\ call' = [op |-> "recolor_ascii", alignment |-> c[1],
                      color_profile |-> c[2], theme |-> c[3],
                      color_mode |-> c[4]]
          /\ result' = recolor_ascii(c[1], asc, c[2], c[3], c[4])
    /\ scanner' = get_or_init(scanner)
    /\ UNCHANGED <<asc, n_pieces, threads>>

CallHorizontal == CallRecolorAscii(CallsOf("horizontal"))

CallVertical == CallRecolorAscii(CallsOf("vertical"))

CallCustom == CallRecolorAscii(CallsOf("custom"))

\* every operation, on every art of the bound
Next ==
    \/ AppendPiece
    \/ CallFillStarting
    \/ CallAsciiSize
    \/ CallNormalizeAscii
    \/ CallHorizontal
    \/ CallVertical
    \/ CallCustom

Spec == Init /\ [][Next]_vars

\* recolor_ascii, every alignment strategy
CallStrategy == CallRecolorAscii(StrategyCalls)

NextStrategies == AppendPiece \/ CallStrategy

SpecStrategies == Init /\ [][NextStrategies]_vars

\* fill_starting alone
NextFill == AppendPiece \/ CallFillStarting

SpecFill == Init /\ [][NextFill]_vars

\* fill_starting on arts of several lines
NextCarry == AppendCarryPiece \/ CallFillStarting

SpecCarry == Init /\ [][NextCarry]_vars

\* recolor_ascii, one alignment mode at a time
NextHorizontal == AppendPiece \/ CallHorizontal

SpecHorizontal == Init /\ [][NextHorizontal]_vars

NextVertical == AppendPiece \/ CallVertical

SpecVertical == Init /\ [][NextVertical]_vars

NextCustom == AppendPiece \/ CallCustom

SpecCustom == Init /\ [][NextCustom]_vars

\* the strip pass applied to the art
CallStrip ==
    /\ pc = "input"
    /\ pc' = "done"
    /\ call' = CallOf("strip")
    /\ result' = Ok(strip(asc))
    /\ scanner' = get_or_init(scanner)
    /\ UNCHANGED <<asc, n_pieces, threads>>

\* the strip pass applied to the text a strip pass returned
StripAgain ==
    /\ pc = "done"
    /\ call.op = "strip"
    /\ asc' = result.text
    /\ call' = CallOf("strip_again")
    /\ result' = Ok(strip(result.text))
    /\ scanner' = get_or_init(scanner)
    /\ UNCHANGED <<pc, n_pieces, threads>>

NextStrip == AppendPiece \/ CallStrip \/ StripAgain

SpecStrip == Init /\ [][NextStrip]_vars

\* normalize_ascii alone
NextNormalize == AppendPiece \/ CallNormalizeAscii

SpecNormalize == Init /\ [][NextNormalize]_vars

\* Horizontal alignment on arts of wide lines
NextWide == AppendWidePiece \/ CallHorizontal

SpecWide == Init /\ [][NextWide]_vars

\* the operations that measure the art, on arts near the u8 limits
NextSize ==
    \/ AppendRun
    \/ CallAsciiSize
    \/ CallNormalizeAscii
    \/ CallHorizontal
    \/ CallVertical
    \/ CallCustom

SpecSize == Init /\ [][NextSize]_vars

(* ------------------------------------------------------------------ *)
(* Concurrent calls: several threads inside the engine, sharing the    *)
(* scanner cell                                                        *)
(* ------------------------------------------------------------------ *)

\* the arts the threads pass
ConcurrentArts == { <<"x">>, Token(2) \o <<"x", "\n", "x">> }

\* the calls the threads make
ConcurrentCalls ==
    {CallOf("fill_starting"), CallOf("ascii_size"), CallOf("normalize_ascii")}
        \cup {[op |-> "recolor_ascii", alignment |-> al,
               color_profile |-> <<"R", "G">>, theme |-> "Dark",
               color_mode |-> "Rgb"] :
                  al \in {Horizontal(<<1, 2>>), Vertical(<<>>)}}

\* the value the call c returns for the art a
RunCall(c, a) ==
    CASE c.op = "fill_starting" -> fill_starting(a)
      [] c.op = "ascii_size" -> ascii_size(a)
      [] c.op = "normalize_ascii" -> normalize_ascii(a)
      [] c.op = "recolor_ascii" ->
            recolor_ascii(c.alignment, a, c.color_profile, c.theme, c.color_mode)

\* the number of times the call c reaches NEOFETCH_COLORS_AC.get_or_init
\* for the art a: once in fill_starting, once in ascii_size, in
\* normalize_ascii once for the art and once for each of its lines, once in
\* each branch of recolor_ascii that scans; a call that returns early or
\* aborts does not reach the later ones
ScannerAccesses(c, a) ==
    IF c.op = "normalize_ascii"
    THEN (IF ascii_size(a).kind # "ok" THEN 1 ELSE 1 + Len(Split(a)))
    ELSE IF c.op # "recolor_ascii" THEN 1
    ELSE IF c.alignment.mode = "vertical" /\ c.alignment.fore_back = <<>> THEN 1
    ELSE IF c.alignment.mode = "horizontal" /\ c.alignment.fore_back = <<>> THEN 2
    ELSE IF fill_starting(a).kind # "ok" THEN 1
    ELSE IF c.alignment.mode = "custom" THEN 2
    ELSE LET filled == fill_starting(a).text
             sz == IF c.alignment.mode = "horizontal"
                   THEN ascii_size(str_replace(filled, Token(c.alignment.fore_back[1]),
                                       <<NeutralColor(c.theme, c.color_mode)>>))
                   ELSE ascii_size(filled)
             length == IF c.alignment.mode = "horizontal" THEN sz.size[2] ELSE sz.size[1]
         IN IF sz.kind # "ok" THEN 2
            ELSE IF with_length(c.color_profile, length).kind # "ok" THEN 2
            ELSE 3

\* a thread enters a call of the engine
ThreadCall(t) ==
    /\ threads[t].pc = "idle"
    /\ \E c \in ConcurrentCalls, a \in ConcurrentArts :
          threads' = [threads EXCEPT ![t] =
                         [pc |-> "get", call |-> c, art |-> a,
                          left |-> ScannerAccesses(c, a), observed |-> TRUE,
                          result |-> NoResult]]
    /\ UNCHANGED <<asc, n_pieces, pc, call, result, scanner>>

\* a variant of get_or_init that does not wait for a running initialisation
GetOrInitNoWait(t) ==
    /\ threads[t].pc = "get"
    /\ scanner.state # "uninit"
    /\ threads' = [threads EXCEPT ![t].pc = "use"]
    /\ UNCHANGED <<asc, n_pieces, pc, call, result, scanner>>

\* get_or_init on a cell that holds the automaton: the reference is returned;
\* while another thread runs the closure the caller is blocked
GetOrInitReady(t) ==
    /\ threads[t].pc = "get"
    /\ scanner.state = "init"
    /\ threads' = [threads EXCEPT ![t].pc = "use"]
    /\ UNCHANGED <<asc, n_pieces, pc, call, result, scanner>>

\* get_or_init on an empty cell: this thread is the one that runs the closure
GetOrInitBegin(t) ==
    /\ threads[t].pc = "get"
    /\ scanner.state = "uninit"
    /\ scanner' = [scanner EXCEPT !.state = "running"]
    /\ threads' = [threads EXCEPT ![t].pc = "init"]
    /\ UNCHANGED <<asc, n_pieces, pc, call, result>>

\* the closure has built the automaton and the cell is written
GetOrInitFinish(t) ==
    /\ threads[t].pc = "init"
    /\ scanner' = Initialised(scanner)
    /\ threads' = [threads EXCEPT ![t].pc = "use"]
    /\ UNCHANGED <<asc, n_pieces, pc, call, result>>

\* the thread scans with the automaton it was handed; after the last scan
\* of the call the value is returned
UseScanner(t) ==
    /\ threads[t].pc = "use"
    /\ LET th == threads[t]
           seen == th.observed /\ scanner.patterns = NEOFETCH_COLOR_PATTERNS
       IN threads' = [threads EXCEPT ![t] =
              IF th.left > 1
              THEN [th EXCEPT !.pc = "get", !.left = th.left - 1, !.observed = seen]
              ELSE [th EXCEPT !.pc = "done", !.left = 0, !.observed = seen,
                              !.result = IF seen THEN RunCall(th.call, th.art)
                                         ELSE Panic("scanner read before it was written")]]
    /\ UNCHANGED <<asc, n_pieces, pc, call, result, scanner>>

\* the caller takes the value; the thread may call again
ThreadReturn(t) ==
    /\ threads[t].pc = "done"
    /\ threads' = [threads EXCEPT ![t] = IdleThread]
    /\ UNCHANGED <<asc, n_pieces, pc, call, result, scanner>>

NextConcurrent ==
    \E t \in Threads :
        \/ ThreadCall(t)
        \/ GetOrInitReady(t)
        \/ GetOrInitBegin(t)
        \/ GetOrInitFinish(t)
        \/ UseScanner(t)
        \/ ThreadReturn(t)

SpecConcurrent == Init /\ [][NextConcurrent]_vars

(* ------------------------------------------------------------------ *)
(* Vocabulary of the properties, stated over texts and byte offsets    *)
(* without the scanner                                                 *)
(* ------------------------------------------------------------------ *)

TokenSet == {Token(k) : k \in 1..SlotCount}

\* the byte offsets at which one of the six tokens occurs in s
TokenStarts(s) ==
    {p \in 0..(Len(s) - TokenLen) : SubSeq(s, p + 1, p + TokenLen) \in TokenSet}

\* the slot of the token that occurs at offset p
SlotAt(s, p) == CHOOSE k \in 1..SlotCount : SubSeq(s, p + 1, p + TokenLen) = Token(k)

\* s, once its leading spaces are removed, begins with a token
BeginsWithToken(s) ==
    \E p \in TokenStarts(s) : \A i \in 1..p : s[i] = " "

Called(op) == pc = "done" /\ call.op = op

InputLines == Split(asc)

OutputLines == Split(result.text)

(* ------------------------------------------------------------------ *)
(* Properties                                                          *)
(* ------------------------------------------------------------------ *)

\* C1: whenever fill_starting succeeds, every line of its result, once the
\* leading spaces are removed, begins with one of the six tokens.
C1_FilledLinesBeginWithToken ==
    (Called("fill_starting") /\ result.kind = "ok") =>
        \A i \in 1..Len(OutputLines) : BeginsWithToken(OutputLines[i])

\* fill_starting succeeded on an art with a line that had no starting token
\* (a token was carried forward) and a line whose token follows spaces
C1_Witness ==
    /\ Called("fill_starting") /\ result.kind = "ok"
    /\ \E i \in 1..Len(InputLines) : ~BeginsWithToken(InputLines[i])
    /\ \E i \in 1..Len(InputLines) :
           BeginsWithToken(InputLines[i]) /\ 0 \notin TokenStarts(InputLines[i])

\* line i needs a carried token and no earlier line holds any token
NeedsCarryWithoutState(lines, i) ==
    /\ ~BeginsWithToken(lines[i])
    /\ \A j \in 1..(i - 1) : TokenStarts(lines[j]) = {}

\* C2: fill_starting fails with the missing-color-state error and returns no
\* text whenever some line does not begin with a token and no earlier line
\* contains one; in particular when the first line does not begin with one.
C2_MissingColorState ==
    (Called("fill_starting")
        /\ \E i \in 1..Len(InputLines) : NeedsCarryWithoutState(InputLines, i)) =>
        /\ result.kind = "err"
        /\ result.err = "MissingColorState"
        /\ result.text = <<>>

\* the failure on an art whose first line has text but no token, while a
\* later line does begin with a token
C2_Witness ==
    /\ Called("fill_starting") /\ result.kind = "err"
    /\ Len(InputLines) >= 2
    /\ InputLines[1] # <<>> /\ TokenStarts(InputLines[1]) = {}
    /\ BeginsWithToken(InputLines[2])


\* s with every token replaced by f[its slot]
Subst(s, f) ==
    LET T == TokenStarts(s)
    IN Flatten([i \in 1..Len(s) |->
           IF (i - 1) \in T THEN f[SlotAt(s, i - 1)]
           ELSE IF \E q \in T : q < i - 1 /\ i - 1 < q + TokenLen THEN <<>>
           ELSE <<s[i]>>])

RecolorCalled(mode, paired) ==
    /\ Called("recolor_ascii")
    /\ call.alignment.mode = mode
    /\ (call.alignment.fore_back # <<>>) = paired

Fore == call.alignment.fore_back[1]
Back == call.alignment.fore_back[2]

\* the art after fill_starting, as lines, and its measured size
FilledLines == Split(fill_starting(asc).text)
FilledSize == ascii_size(fill_starting(asc).text).size

\* offset at which the span of the token at p ends: the next token or the line end
SpanEnd(line, p) ==
    LET later == {q \in TokenStarts(line) : q > p}
    IN IF later = {} THEN Len(line)
       ELSE CHOOSE q \in later : \A r \in later : q <= r

\* total length of the tokens of the line up to and including the one at p
Consumed(line, p) == TokenLen * Cardinality({q \in TokenStarts(line) : q <= p})

\* the character position of the byte offset q of the line: the number of
\* characters before it, a character of several bytes counted once
CharPos(line, q) == Graphemes(SubSeq(line, 1, q))

\* the rendering C3 gives to the span of the token at p: for the back slot
\* the entries [s, e) of the spread profile, s and e being the character
\* positions of the span's start and end minus the length of the tokens
\* consumed so far on the line
VerticalSegment(line, p, spread) ==
    LET slot == SlotAt(line, p)
        e == SpanEnd(line, p)
        txt == SubSeq(line, p + TokenLen + 1, e)
        from == CharPos(line, p + TokenLen) - Consumed(line, p)
        to == CharPos(line, e) - Consumed(line, p)
    IN IF slot = Fore THEN <<NeutralColor(call.theme, call.color_mode)>> \o txt \o <<reset>>
       ELSE IF slot = Back THEN color_text(SubSeq(spread, from + 1, to), txt).text
       ELSE txt

RECURSIVE VerticalSegments(_, _, _)
VerticalSegments(line, T, spread) ==
    IF T = {} THEN <<>>
    ELSE LET p == CHOOSE q \in T : \A r \in T : q <= r
         IN VerticalSegment(line, p, spread)
                \o VerticalSegments(line, T \ {p}, spread)

\* the lines C3 describes for the filled art
VerticalRendering ==
    LET spread == with_length(call.color_profile, FilledSize[1]).text
    IN Join([i \in 1..Len(FilledLines) |->
               VerticalSegments(FilledLines[i], TokenStarts(FilledLines[i]), spread)])

\* C3: in Vertical alignment with a pair (fore, back) the call does not
\* abort, and whenever it returns text every line is the concatenation, over
\* its tokens in order, of the span after the token rendered as: neutral
\* colour, text, reset for the fore slot; the text coloured with the entries
\* [s, e) of the profile spread to the art's width for the back slot, s and e
\* being the span's start and end character positions minus the length of the
\* tokens consumed so far on the line; the text unchanged for any other slot.
C3_VerticalSpans ==
    RecolorCalled("vertical", TRUE) =>
        /\ result.kind # "panic"
        /\ result.kind = "ok" => result.text = VerticalRendering

\* the same statement on the arts whose characters all take one byte, where
\* character positions and byte offsets are the same numbers
C3_VerticalSpansOneByte ==
    (RecolorCalled("vertical", TRUE) /\ \A i \in 1..Len(asc) : asc[i] # "E1") =>
        /\ result.kind # "panic"
        /\ result.kind = "ok" => result.text = VerticalRendering

Count(s, b) == Cardinality({i \in 1..Len(s) : s[i] = b})

\* the measured size of an art: graphemes of the widest line and number of
\* lines, tokens ignored
MeasuredWidth(a) ==
    LET lines == Split(a)
        w(i) == Cardinality({j \in 1..Len(lines[i]) :
                    /\ ~IsContinuation(lines[i][j])
                    /\ ~\E q \in TokenStarts(lines[i]) : q < j /\ j <= q + TokenLen})
    IN CHOOSE m \in {w(i) : i \in 1..Len(lines)} :
           \A i \in 1..Len(lines) : w(i) <= m

MeasuredHeight(a) == Count(a, "\n") + 1

\* C4: in Horizontal alignment with a pair, when fill_starting succeeds and
\* the profile spreads to the h lines of the art, output line i is line i of
\* the filled art with every fore token replaced by the neutral colour
\* escape, every back token by the foreground escape of spread colour i and
\* every other token removed, followed by one reset.  Stated for the arts
\* whose measured width and height fit in 255.
C4_HorizontalForeBack ==
    (RecolorCalled("horizontal", TRUE) /\ fill_starting(asc).kind = "ok"
        /\ with_length(call.color_profile, Len(FilledLines)).kind = "ok"
        /\ MeasuredWidth(asc) <= U8Max /\ MeasuredHeight(asc) <= U8Max) =>
        LET spread == with_length(call.color_profile, Len(FilledLines)).text
            f(i) == [k \in 1..SlotCount |->
                        IF k = Fore THEN <<NeutralColor(call.theme, call.color_mode)>>
                        ELSE IF k = Back THEN <<to_ansi_string(spread[i])>>
                        ELSE <<>>]
        IN /\ result.kind = "ok"
           /\ result.text =
                  Join([i \in 1..Len(FilledLines) |->
                          Subst(FilledLines[i], f(i)) \o <<reset>>])

\* C5: in Horizontal alignment without a pair, when the profile spreads to
\* the h lines of the art, the output has h lines and line i is the
\* foreground escape of spread colour i, input line i with its tokens
\* removed, then one reset.
C5_HorizontalPlain ==
    (RecolorCalled("horizontal", FALSE)
        /\ with_length(call.color_profile, Len(InputLines)).kind = "ok") =>
        LET spread == with_length(call.color_profile, Len(InputLines)).text
        IN /\ result.kind = "ok"
           /\ Len(OutputLines) = Len(InputLines)
           /\ \A i \in 1..Len(InputLines) :
                 /\ OutputLines[i] =
                        <<to_ansi_string(spread[i])>>
                            \o Subst(InputLines[i], REPLACEMENTS) \o <<reset>>
                 /\ Count(OutputLines[i], reset) = 1

\* text returned for an art of at least two lines that holds a token, the
\* rows being given different colours
C5_Witness ==
    /\ RecolorCalled("horizontal", FALSE) /\ result.kind = "ok"
    /\ Len(InputLines) >= 2
    /\ TokenStarts(asc) # {}
    /\ OutputLines[1][1] # OutputLines[2][1]

\* the palette index the mapping gives slot k, as a set (empty: not mapped)
MappedTo(custom_colors, k) ==
    {custom_colors[j][2] : j \in {j \in 1..Len(custom_colors) : custom_colors[j][1] = k}}

\* C6: in Custom alignment, whenever text is returned, every token of slot K
\* of the filled art is replaced by the foreground rendering of entry
\* mapping[K] of the deduplicated profile when K is mapped and by nothing
\* when it is not, and every output line ends with one appended reset.
C6_Custom ==
    (RecolorCalled("custom", FALSE) /\ result.kind = "ok") =>
        LET palette == unique_colors(call.color_profile)
            f == [k \in 1..SlotCount |->
                    IF MappedTo(call.alignment.colors, k) = {} THEN <<>>
                    ELSE <<to_ansi_string(
                             palette[(CHOOSE x \in MappedTo(call.alignment.colors, k) : TRUE) + 1])>>]
        IN /\ result.text =
                  Join([i \in 1..Len(FilledLines) |->
                          Subst(FilledLines[i], f) \o <<reset>>])
           /\ \A i \in 1..Len(OutputLines) : Count(OutputLines[i], reset) = 1

\* text returned for an art that holds a token of a mapped slot whose palette
\* index is not 0 and a token of a slot that is not mapped
C6_Witness ==
    /\ RecolorCalled("custom", FALSE) /\ result.kind = "ok"
    /\ \E p \in TokenStarts(asc) :
           \E x \in MappedTo(call.alignment.colors, SlotAt(asc, p)) : x > 0
    /\ \E p \in TokenStarts(asc) : MappedTo(call.alignment.colors, SlotAt(asc, p)) = {}


\* C7: the text returned in Horizontal-with-pair mode and in Custom mode
\* contains no occurrence of any of the six tokens, for every input art.
C7_NoTokenInOutput ==
    ((RecolorCalled("horizontal", TRUE) \/ RecolorCalled("custom", FALSE))
        /\ result.kind = "ok") =>
        TokenStarts(result.text) = {}

\* C8 as stated: with an empty profile every alignment strategy fails with
\* the profile-spread error.
C8_EmptyProfileAlwaysSpreadFailure ==
    (Called("recolor_ascii") /\ call.color_profile = <<>>) =>
        result.kind = "err" /\ result.err = "ProfileSpreadFailure"

\* C8, amended: with an empty profile, Horizontal and Vertical alignment
\* (with or without a pair) return no text; the failure is the
\* profile-spread error whenever fill_starting (run by the pair variants)
\* succeeds and the size measurement does not abort, and the
\* missing-color-state error when fill_starting fails.
C8_EmptyProfile ==
    (Called("recolor_ascii") /\ call.color_profile = <<>>
        /\ call.alignment.mode \in {"horizontal", "vertical"}) =>
        /\ result.kind # "ok"
        /\ result.text = <<>>
        /\ (call.alignment.fore_back # <<>> /\ fill_starting(asc).kind # "ok") =>
               (result.kind = "err" /\ result.err = "MissingColorState")
        /\ ((call.alignment.fore_back # <<>> => fill_starting(asc).kind = "ok")
               /\ result.kind # "panic") =>
               (result.kind = "err" /\ result.err = "ProfileSpreadFailure")

\* a strategy with a pair has failed with the profile-spread error on an
\* empty profile, for an art of two lines that fill_starting accepts
C8_Witness ==
    /\ Called("recolor_ascii") /\ call.color_profile = <<>>
    /\ call.alignment.mode \in {"horizontal", "vertical"}
    /\ result.err = "ProfileSpreadFailure"
    /\ call.alignment.fore_back # <<>>
    /\ Len(InputLines) >= 2
    /\ TokenStarts(asc) # {}

\* C9: in Custom alignment a mapping that references a palette index at or
\* beyond the length of the deduplicated profile makes recolor_ascii return
\* the InvalidColorIndex error value, with no text.
C9_InvalidColorIndexReturned ==
    (RecolorCalled("custom", FALSE) /\ fill_starting(asc).kind = "ok"
        /\ \E j \in 1..Len(call.alignment.colors) :
              call.alignment.colors[j][2] >= Len(unique_colors(call.color_profile))) =>
        /\ result.kind = "err"
        /\ result.err = "InvalidColorIndex"
        /\ result.text = <<>>

\* the operation called measures the art with ascii_size
MeasuresArt ==
    \/ Called("ascii_size")
    \/ Called("normalize_ascii")
    \/ RecolorCalled("horizontal", FALSE)
    \/ (RecolorCalled("horizontal", TRUE) /\ fill_starting(asc).kind = "ok")
    \/ (RecolorCalled("vertical", TRUE) /\ fill_starting(asc).kind = "ok")

\* C10: when the measured width or height of the art exceeds 255, ascii_size
\* and every operation that calls it return DimensionOverflow as an error
\* value to the caller.
C10_DimensionOverflowReturned ==
    (MeasuresArt /\ (MeasuredWidth(asc) > U8Max \/ MeasuredHeight(asc) > U8Max)) =>
        result.kind = "err" /\ result.err = "DimensionOverflow"

\* the display width of one line, tokens ignored
LineWidth(line) ==
    Cardinality({j \in 1..Len(line) :
        /\ ~IsContinuation(line[j])
        /\ ~\E q \in TokenStarts(line) : q < j /\ j <= q + TokenLen})

\* C11: whenever normalize_ascii returns, its result has as many lines as
\* the art, every line of it is the art's line followed by spaces only, and
\* every line, measured with tokens ignored, has the same display width,
\* which is the width component of ascii_size of the art.
C11_NormalizedWidth ==
    (Called("normalize_ascii") /\ result.kind = "ok") =>
        /\ Len(OutputLines) = Len(InputLines)
        /\ \A i \in 1..Len(OutputLines) :
              /\ LineWidth(OutputLines[i]) = ascii_size(asc).size[1]
              /\ LineWidth(OutputLines[i]) = MeasuredWidth(asc)
              /\ Len(OutputLines[i]) >= Len(InputLines[i])
              /\ SubSeq(OutputLines[i], 1, Len(InputLines[i])) = InputLines[i]
              /\ \A j \in (Len(InputLines[i]) + 1)..Len(OutputLines[i]) :
                     OutputLines[i][j] = " "

\* normalize_ascii returned for an art of several lines of different widths
\* that holds a token and a two-byte character on a line that was padded
C11_Witness ==
    /\ Called("normalize_ascii") /\ result.kind = "ok"
    /\ TokenStarts(asc) # {}
    /\ \E i \in 1..Len(InputLines) :
           /\ "E1" \in Range(InputLines[i])
           /\ Len(OutputLines[i]) > Len(InputLines[i])

\* C12: normalize_ascii is total: for every text, of any width and any
\* number of lines, it returns a string and never fails or aborts.
C12_NormalizeTotal ==
    Called("normalize_ascii") => result.kind = "ok"

\* C13: the strip pass is idempotent: applied to the text a strip pass
\* returned, it returns that text unchanged, also when the removal of one
\* token made its neighbours form a new token.
C13_StripIdempotent ==
    Called("strip_again") => result.text = asc

\* C14: under every interleaving of concurrent calls of recolor_ascii,
\* ascii_size and fill_starting (and of normalize_ascii, which scans through
\* ascii_size), the shared scanner is written at most once,
\* holds the six patterns from then on, every thread that scans has been
\* handed the written scanner, and every call returns the value the same
\* call returns when run alone.
C14_ScannerOnceResultsAlone ==
    /\ scanner.inits <= 1
    /\ scanner.state = "init" =>
           (scanner.inits = 1 /\ scanner.patterns = NEOFETCH_COLOR_PATTERNS)
    /\ \A t \in Threads :
           /\ threads[t].pc = "use" => scanner.state = "init"
           /\ threads[t].pc = "done" =>
                  threads[t].result = RunCall(threads[t].call, threads[t].art)

\* one thread has returned text from recolor_ascii, which asked for the
\* scanner three times, while another thread is scanning inside fill_starting
C14_Witness ==
    \E t, u \in Threads :
        /\ t # u
        /\ threads[t].pc = "done" /\ threads[t].call.op = "recolor_ascii"
        /\ threads[t].result.kind = "ok"
        /\ ScannerAccesses(threads[t].call, threads[t].art) = 3
        /\ threads[u].pc = "use" /\ threads[u].call.op = "fill_starting"

\* the last token, in reading order, of the lines before line i: <<>> when
\* they hold none, else <<token>>
LastTokenBefore(lines, i) ==
    LET with == {j \in 1..(i - 1) : TokenStarts(lines[j]) # {}}
    IN IF with = {} THEN <<>>
       ELSE LET j == Max(with)
                p == Max(TokenStarts(lines[j]))
            IN <<SubSeq(lines[j], p + 1, p + TokenLen)>>

\* C15: whenever fill_starting succeeds, a line that begins with a token is
\* returned unchanged, and a line that does not is returned with one token
\* prepended, which is the last token occurring, in reading order, in the
\* preceding lines of the input: lines without a token leave the carry
\* unchanged, and a line that received a token passes on its own last token
\* when it has one.
C15_CarryIsLastToken ==
    (Called("fill_starting") /\ result.kind = "ok") =>
        /\ Len(OutputLines) = Len(InputLines)
        /\ \A i \in 1..Len(InputLines) :
              IF BeginsWithToken(InputLines[i])
              THEN OutputLines[i] = InputLines[i]
              ELSE /\ LastTokenBefore(InputLines, i) # <<>>
                   /\ OutputLines[i] =
                          LastTokenBefore(InputLines, i)[1] \o InputLines[i]

\* fill_starting succeeded on an art whose second line received a token and
\* holds a different token of its own, and whose third line received that
\* token of the second line
C15_Witness ==
    /\ Called("fill_starting") /\ result.kind = "ok"
    /\ Len(InputLines) >= 3
    /\ ~BeginsWithToken(InputLines[2]) /\ ~BeginsWithToken(InputLines[3])
    /\ TokenStarts(InputLines[2]) # {}
    /\ LastTokenBefore(InputLines, 2) # LastTokenBefore(InputLines, 3)
    /\ SubSeq(OutputLines[3], 1, TokenLen) = LastTokenBefore(InputLines, 3)[1]

\* the abort of the branch for a line without any colour code
TookUnreachableBranch ==
    result.kind = "panic" /\ result.err = "unreachable: no color code in the entire line"

\* C16: in Vertical alignment with a pair, for every art on which
\* fill_starting succeeds, every line the per-line scanner is given holds at
\* least one token and the branch for a line without any token is never
\* taken; empty lines, lines of spaces and the line after a trailing line
\* break included.
C16_UnreachableNeverTaken ==
    (RecolorCalled("vertical", TRUE) /\ fill_starting(asc).kind = "ok") =>
        /\ \A i \in 1..Len(FilledLines) : find_iter(FilledLines[i]) # <<>>
        /\ ~TookUnreachableBranch

\* text returned in Vertical alignment with a pair for an art with an empty
\* line, a line of spaces only and a trailing line break
C16_Witness ==
    /\ RecolorCalled("vertical", TRUE) /\ result.kind = "ok"
    /\ asc # <<>> /\ asc[Len(asc)] = "\n"
    /\ \E i \in 1..Len(InputLines) : InputLines[i] = <<>>
    /\ \E i \in 1..Len(InputLines) :
           InputLines[i] # <<>> /\ OnlySpaces(InputLines[i])

\* the bounds of the slice of the spread profile taken for the span of the
\* token at p: span.start - offset and span.end - offset
SliceFrom(line, p) == p + TokenLen - Consumed(line, p)

SliceTo(line, p) == SpanEnd(line, p) - Consumed(line, p)

\* C17: in Vertical alignment with a pair, for every line and every span of
\* the back slot, the bounds of the slice taken from the profile spread to
\* the art's width satisfy 0 <= start <= end <= width, the width counted in
\* graphemes, so the slice never aborts; also on lines with characters of
\* more than one byte.
C17_SliceBoundsWithinWidth ==
    (RecolorCalled("vertical", TRUE) /\ fill_starting(asc).kind = "ok"
        /\ with_length(call.color_profile, FilledSize[1]).kind = "ok") =>
        /\ \A i \in 1..Len(FilledLines) :
              \A p \in TokenStarts(FilledLines[i]) :
                  SlotAt(FilledLines[i], p) = Back =>
                      /\ 0 <= SliceFrom(FilledLines[i], p)
                      /\ SliceFrom(FilledLines[i], p) <= SliceTo(FilledLines[i], p)
                      /\ SliceTo(FilledLines[i], p) <= FilledSize[1]
        /\ ~(result.kind = "panic" /\ result.err = "slice index out of range")

\* the text with the colour and reset escapes removed
Visible(s) == SelectSeq(s, LAMBDA b : ~IsEscape(b))

\* C18: in Vertical alignment with a pair, whenever text is returned, every
\* output line with its colour and reset escapes removed equals the input
\* line with its tokens removed, the spaces that precede the first token of
\* the line included.
C18_VisibleTextPreserved ==
    (RecolorCalled("vertical", TRUE) /\ result.kind = "ok") =>
        /\ Len(OutputLines) = Len(InputLines)
        /\ \A i \in 1..Len(InputLines) :
              Visible(OutputLines[i]) = Subst(InputLines[i], REPLACEMENTS)

\* the profile operations of the call without a pair succeed: the spread to
\* the art's height (Horizontal), the colouring of every line (Vertical)
ProfileOperationsSucceed ==
    IF call.alignment.mode = "horizontal"
    THEN with_length(call.color_profile, Len(InputLines)).kind = "ok"
    ELSE \A i \in 1..Len(InputLines) :
             with_length(call.color_profile, LineWidth(InputLines[i])).kind = "ok"

\* the text holds a colour escape
Coloured(s) == \E i \in 1..Len(s) : IsEscape(s[i]) /\ s[i] # reset

\* C19: Horizontal and Vertical alignment without a pair never fail with the
\* missing-color-state error; on an art whose first line does not begin
\* with a token they return coloured text whenever their profile operations
\* succeed, whereas Horizontal with a pair, Vertical with a pair and Custom
\* fail on such an art with the missing-color-state error.
C19_NoPairNeverFills ==
    Called("recolor_ascii") =>
        LET plain == call.alignment.mode \in {"horizontal", "vertical"}
                         /\ call.alignment.fore_back = <<>>
        IN /\ plain => ~(result.kind = "err" /\ result.err = "MissingColorState")
           /\ ~BeginsWithToken(InputLines[1]) =>
                  IF plain
                  THEN ProfileOperationsSucceed =>
                           /\ result.kind = "ok"
                           /\ Coloured(result.text)
                           /\ Visible(result.text) = Subst(asc, REPLACEMENTS)
                  ELSE /\ result.kind = "err"
                       /\ result.err = "MissingColorState"
                       /\ result.text = <<>>

\* coloured text returned by Vertical alignment without a pair for an art of
\* two lines that holds a token but none at the start of its first line, on
\* which fill_starting fails
C19_Witness ==
    /\ RecolorCalled("vertical", FALSE) /\ result.kind = "ok"
    /\ Coloured(result.text)
    /\ Len(InputLines) >= 2
    /\ TokenStarts(asc) # {}
    /\ ~BeginsWithToken(InputLines[1])
    /\ fill_starting(asc).kind = "err"

====
